---- MODULE Spec2Model ----
(***************************************************************************)
(* A model of the YouTube P2P chat extension: the storage service          *)
(* (storage-service.js), the P2P service (class P2PService) and the chat   *)
(* input box that sends through it.                                        *)
(*                                                                         *)
(* Strings that the code inspects character by character (message text,    *)
(* nickname, search query) are sequences of one-character strings; the     *)
(* empty sequence is the empty string, which JavaScript also treats as a   *)
(* missing value (falsy).  The character "S" stands for a script element,  *)
(* which DOMPurify.sanitize removes.  Ids that the code only compares      *)
(* (user ids, video ids) are plain strings.  A room id is the pair         *)
(* <<videoId, suffix>> built by `yt-${videoId}-${uuid}`, and <<>> is a     *)
(* missing (null/undefined) room id.  A missing timestamp is 0.            *)
(***************************************************************************)
EXTENDS Integers, Sequences, FiniteSets, TLC

\* ------------------------------------------------------------------ bounds
\* Largest number of records the messages store holds in the model.
MaxMsgs == 3
\* Largest value of the clock (Date.now()) and of a wire timestamp.
MaxTime == 2

\* Number of Peer objects (new Peer(...)) the model can create.
MaxPeerObj == 2
\* Number of DataConnection objects the model can create.
MaxConnObj == 2
\* Number of uuidv4() calls the model can make.
MaxUuid == 4
\* Number of handlers registered through onMessage in the model.
MaxHandlers == 2
\* Number of inbound wire messages handled in the model.
MaxDeliveries == 2
\* Number of messages sent by the local user in the model.
MaxSends == 1
\* Number of JOIN_ROOM messages in flight to the tab in the model.
MaxJoins == 1

\* ------------------------------------------------------- values and inputs
NoRoom == <<>>
RoomA == <<"vA", 7>>
RoomB == <<"vB", 8>>
StoreRooms == {RoomA, RoomB}

Anonymous == <<"A", "n", "o", "n", "y", "m", "o", "u", "s">>

Hi == <<"h", "i">>
Ih == <<"i", "h">>
Script == <<"S">>

\* Search queries typed by the user.
Queries == {<<>>, <<"h">>, <<"H", "i">>}

\* messageData objects handed to saveMessage.
MessageInputs ==
    [userId : {"u1"}, nickname : {<<>>}, roomId : {RoomA},
     text : {Hi}, timestamp : {1, MaxTime}]
    \cup {[userId |-> "u1", nickname |-> <<>>, roomId |-> RoomA,
           text |-> Ih, timestamp |-> 1],
          [userId |-> "u1", nickname |-> <<>>, roomId |-> RoomB,
           text |-> Hi, timestamp |-> 1],
          [userId |-> "u2", nickname |-> <<"h">>, roomId |-> RoomA,
           text |-> Script, timestamp |-> 0]}

\* getMessagesForRoom(roomId, limit = 50)
DefaultLimit == 50
\* The limits passed to getMessagesForRoom.
Limits == {1, 2, DefaultLimit}

\* ------------------------------------------------------------- state
VARIABLES
    messagesDb,     \* db.messages: the records, in primary-key (id) order
    nextId,         \* the next auto-increment primary key of db.messages
    now,            \* the clock read by Date.now()
    lastGet,        \* the last getMessagesForRoom call and its result
    lastSearch,     \* the last searchMessages call and its result
    storeFailure    \* the storage-service call whose catch block ran in the last
                    \* step (console.error 'Failed to ...'), "none" otherwise

storeVars == <<messagesDb, nextId, now, lastGet, lastSearch>>

\* The fields of the P2PService singleton.
VARIABLES
    videoId,                \* this.videoId ("null" before the first initialize)
    peerId,                 \* this.peerId (0 is null)
    roomId,                 \* this.roomId (<<>> is null)
    peer,                   \* this.peer: the number of a Peer object, 0 is null
    socket,                 \* this.socket: "null" or the state of the Socket.IO socket
    connections,            \* this.connections: remote peer id -> DataConnection, 0 is absent
    useWebSocketFallback    \* this.useWebSocketFallback

\* What the service runs on.
VARIABLES
    peerObj,        \* the state of every Peer object created so far
    connObj,        \* every DataConnection object: remote peer, state, owning Peer
    storedPeerId,   \* chrome.storage.local 'peerId' (0 is missing)
    uuidCtr,        \* the number of uuidv4() calls made so far
    pc,             \* where the running initialize call is suspended, or "idle"
    initRes,        \* what the last initialize call returned, and how it got there
    joinRes,        \* what the last joinRoom call returned
    teardown,       \* cleanup ran while initialize awaited initializePeerJS
    cleanups        \* the number of cleanup calls in a row, up to 2

\* Messaging: the subscribers of the service and the chat feed of the UI.
VARIABLES
    messageCallbacks,   \* this.messageCallbacks: the registered handlers, in order
    notified,           \* every callback invocation so far: <<handler, data>>
    deliveries,         \* every handleIncomingMessage invocation so far: its data
    feed,               \* ChatContainer's messages state, fed by onMessageSent
    lastSend,           \* the last P2PService.sendMessage call and its result
    lastInput           \* the last InputBox.sendMessage run with non-blank text

\* Identity: what the background worker, the popup and the chat header keep
\* about the participant.
VARIABLES
    storedUserId,       \* chrome.storage.local 'userId' (0 is missing)
    storedNickname,     \* chrome.storage.local 'nickname'
    usersDb,            \* db.users: the rows, each [id, nickname]
    currentRoom,        \* chrome.storage.local 'currentRoom'
    bgPeerId,           \* the background worker's peerId (0 is null)
    bgInitRes,          \* what the last initializeP2P of the worker returned
    popupUserId         \* the popup's userId state (0 is null)

identVars == <<storedUserId, storedNickname, usersDb, currentRoom, bgPeerId,
               bgInitRes, popupUserId>>

\* Maintenance of the store: the rooms table and the purge of old messages.
VARIABLES
    roomsDb,            \* db.rooms: the rows, one per room id
    lastRooms,          \* the last getRooms call and its result
    lastClear           \* the last clearOldMessages call and its result

maintVars == <<roomsDb, lastRooms, lastClear>>

\* The user interface: the ChatContainer components and the page that the
\* content script runs in.
VARIABLES
    staleHandlers,      \* the onMessage handlers of unmounted ChatContainers
    location,           \* window.location: "other" or the video of a watch page
    widgets,            \* the elements with id 'yt-p2p-chat': the video of each
    initRequests,       \* the INIT_P2P messages sent and not yet handled
    loadState,          \* the content script: "loading" before it runs,
                        \* "listening" for DOMContentLoaded, or "loaded"
    observers,          \* the number of MutationObservers observing the page
    observed,           \* an observer callback has run since the location changed
    closedOn,           \* the video of the page the widget was closed on
    tabMessages         \* the JOIN_ROOM messages sent to the tab, not yet handled

uiVars == <<staleHandlers, location, widgets, initRequests, loadState,
            observers, observed, closedOn, tabMessages>>

serviceVars == <<videoId, peerId, roomId, peer, socket, connections,
                 useWebSocketFallback>>
envVars == <<peerObj, connObj, storedPeerId, uuidCtr, pc, initRes, joinRes,
             teardown, cleanups>>
chatVars == <<messageCallbacks, notified, deliveries, feed, lastSend, lastInput>>
vars == <<storeVars, storeFailure, serviceVars, envVars, chatVars, identVars, maintVars, uiVars>>

\* ------------------------------------------------------ sequence helpers
Reverse(s) == [i \in 1..Len(s) |-> s[Len(s) + 1 - i]]

Take(s, n) == SubSeq(s, 1, IF n < Len(s) THEN n ELSE Len(s))

Range(s) == {s[i] : i \in 1..Len(s)}

\* ------------------------------------------------------------ DOMPurify
\* DOMPurify.sanitize(text): script content is removed, plain text kept.
Sanitize(text) == SelectSeq(text, LAMBDA c : c # "S")

\* ------------------------------------------------------------ saveMessage
\* The record that saveMessage hands to db.messages.add.
saveMessageRecord(messageData, id, clock) ==
    [id        |-> id,
     roomId    |-> messageData.roomId,
     userId    |-> messageData.userId,
     nickname  |-> IF messageData.nickname = <<>> THEN Anonymous
                   ELSE messageData.nickname,
     text      |-> Sanitize(messageData.text),
     timestamp |-> IF messageData.timestamp = 0 THEN clock
                   ELSE messageData.timestamp]

\* saveMessage(messageData): db.messages.add either stores the record under a
\* fresh id (addOk) or rejects, in which case the error is caught and returned.
saveMessageDb(db, messageData, id, clock, addOk) ==
    IF addOk THEN Append(db, saveMessageRecord(messageData, id, clock)) ELSE db

saveMessageResult(id, addOk) ==
    IF addOk THEN [success |-> TRUE, id |-> id] ELSE [success |-> FALSE, id |-> 0]

\* ----------------------------------------------------- getMessagesForRoom
\* where('roomId').equals(roomId): the records indexed under roomId, in the
\* order of the roomId index, i.e. by primary key among equal room ids.  A
\* record without roomId is in no index entry, and a missing roomId is not a
\* valid key (the query throws and the catch returns []).
whereRoomId(db, room) ==
    IF room = NoRoom THEN <<>>
    ELSE SelectSeq(db, LAMBDA r : r.roomId = room)

getMessagesForRoom(db, room, limit) ==
    LET newestFirst == Take(Reverse(whereRoomId(db, room)), limit)
    IN  Reverse(newestFirst)

\* ------------------------------------------------------------ Fuse.js
\* Fuse compares case-insensitively.
LowerChar(c) == IF c = "A" THEN "a" ELSE IF c = "H" THEN "h" ELSE c
Lower(s) == [i \in 1..Len(s) |-> LowerChar(s[i])]

\* threshold: 0.4, in hundredths.
FuseThreshold == 40

\* Number of pattern characters that differ from the text at location loc
\* (0-based); characters past the end of the text count as errors.
BitapErrors(pattern, text, loc) ==
    Cardinality({i \in 1..Len(pattern) :
                    \/ loc + i > Len(text)
                    \/ text[loc + i] # pattern[i]})

\* Fuse's score of a match at loc, in hundredths: accuracy (errors per pattern
\* character) plus proximity to the expected location 0 over distance 100.
BitapScoreAt(pattern, text, loc) ==
    (100 * BitapErrors(pattern, text, loc)) \div Len(pattern) + loc

\* The scores within the threshold of one field against the pattern
\* (BitapSearch.searchIn): an exact match scores 0, an empty pattern has no
\* chunk and matches nothing else.
BitapScores(pattern, text) ==
    IF pattern = text THEN {0}
    ELSE IF pattern = <<>> THEN {}
    ELSE {BitapScoreAt(pattern, text, loc) : loc \in 0..(Len(text) - 1)}
             \cap 0..FuseThreshold

\* The scores of a record over keys ['text', 'nickname']; a blank field is
\* not indexed by Fuse.
FuseScores(query, r) ==
    LET p == Lower(query)
        fields == {f \in {r.text, r.nickname} : f # <<>>}
    IN  UNION {BitapScores(p, Lower(f)) : f \in fields}

FuseIsMatch(query, r) == FuseScores(query, r) # {}

Min(S) == CHOOSE x \in S : \A y \in S : x <= y

FuseScore(query, r) == Min(FuseScores(query, r))

RECURSIVE InsertByScore(_, _, _)
InsertByScore(query, sorted, r) ==
    IF sorted = <<>> THEN <<r>>
    ELSE IF FuseScore(query, r) < FuseScore(query, Head(sorted))
         THEN <<r>> \o sorted
         ELSE <<Head(sorted)>> \o InsertByScore(query, Tail(sorted), r)

RECURSIVE SortByScore(_, _)
SortByScore(query, items) ==
    IF items = <<>> THEN <<>>
    ELSE InsertByScore(query,
                       SortByScore(query, SubSeq(items, 1, Len(items) - 1)),
                       items[Len(items)])

\* fuse.search(query): the matching items, best score first.
FuseSearch(items, query) ==
    SortByScore(query, SelectSeq(items, LAMBDA r : FuseIsMatch(query, r)))

\* ----------------------------------------------------------- searchMessages
\* Array.prototype.sort((a, b) => a.timestamp - b.timestamp): a stable sort.
RECURSIVE InsertByTimestamp(_, _)
InsertByTimestamp(sorted, r) ==
    IF sorted = <<>> THEN <<r>>
    ELSE IF r.timestamp < Head(sorted).timestamp
         THEN <<r>> \o sorted
         ELSE <<Head(sorted)>> \o InsertByTimestamp(Tail(sorted), r)

RECURSIVE SortByTimestamp(_)
SortByTimestamp(items) ==
    IF items = <<>> THEN <<>>
    ELSE InsertByTimestamp(SortByTimestamp(SubSeq(items, 1, Len(items) - 1)),
                           items[Len(items)])

searchMessages_NoSort(db, room, query) ==
    FuseSearch(whereRoomId(db, room), query)

searchMessages_EmptyQueryAll(db, room, query) ==
    IF query = <<>> THEN SortByTimestamp(whereRoomId(db, room))
    ELSE SortByTimestamp(FuseSearch(whereRoomId(db, room), query))

searchMessages(db, room, query) ==
    SortByTimestamp(FuseSearch(whereRoomId(db, room), query))

\* ------------------------------------------------- storage-service calls
NoGet == [called |-> FALSE, roomId |-> NoRoom, limit |-> 0, result |-> <<>>]
NoSearch == [called |-> FALSE, roomId |-> NoRoom, query |-> <<>>, result |-> <<>>]

NoRooms == [called |-> FALSE, result |-> <<>>]
NoClear == [called |-> FALSE, success |-> FALSE, cutoff |-> 0, count |-> 0]

StoreInit ==
    /\ messagesDb = <<>>
    /\ nextId = 1
    /\ now = 1
    /\ lastGet = NoGet
    /\ lastSearch = NoSearch
    /\ storeFailure = "none"
    /\ roomsDb = {}
    /\ lastRooms = NoRooms
    /\ lastClear = NoClear

\* The clock values Date.now() can return for this call: it is read only when
\* messageData carries no timestamp.
Clocks(messageData) == IF messageData.timestamp = 0 THEN now..MaxTime ELSE {now}

\* A direct call of saveMessage(messageData), messageData being one of inputs.
SaveMessageOf(inputs) ==
    \E messageData \in inputs, addOk \in BOOLEAN :
      \E clock \in Clocks(messageData) :
        /\ Len(messagesDb) < MaxMsgs
        /\ now' = clock
        /\ messagesDb' = saveMessageDb(messagesDb, messageData, nextId, clock, addOk)
        /\ nextId' = IF addOk THEN nextId + 1 ELSE nextId
        /\ lastGet' = NoGet
        /\ lastSearch' = NoSearch
        /\ lastClear' = NoClear
        /\ storeFailure' = IF addOk THEN "none" ELSE "save"
        /\ UNCHANGED <<serviceVars, envVars, chatVars, identVars, roomsDb,
                       lastRooms, uiVars>>

SaveMessage == SaveMessageOf(MessageInputs)

\* getMessagesForRoom(roomId, limit) with the read of db.messages resolving
\* (readOk) or rejecting: the catch block returns [].
getMessagesForRoomResult(db, room, limit, readOk) ==
    IF readOk THEN getMessagesForRoom(db, room, limit) ELSE <<>>

\* The catch block of getMessagesForRoom runs when the read rejects and when
\* equals(roomId) throws for a missing room id.
getMessagesForRoomFailed(room, readOk) == ~readOk \/ room = NoRoom

\* A call of getMessagesForRoom(roomId, limit).
GetMessagesForRoom ==
    \E room \in StoreRooms \cup {NoRoom}, limit \in Limits, readOk \in BOOLEAN :
        /\ lastGet' = [called |-> TRUE, roomId |-> room, limit |-> limit,
                       result |-> getMessagesForRoomResult(messagesDb, room, limit,
                                                           readOk)]
        /\ lastSearch' = NoSearch
        /\ storeFailure' = IF getMessagesForRoomFailed(room, readOk)
                           THEN "get" ELSE "none"
        /\ UNCHANGED <<messagesDb, nextId, now, serviceVars, envVars, chatVars,
                       identVars, maintVars, uiVars>>

\* A call of searchMessages(roomId, query).
SearchMessages ==
    \E room \in StoreRooms, query \in Queries, readOk \in BOOLEAN :
        /\ lastSearch' = [called |-> TRUE, roomId |-> room, query |-> query,
                          result |-> IF readOk
                                     THEN searchMessages(messagesDb, room, query)
                                     ELSE <<>>]
        /\ lastGet' = NoGet
        /\ storeFailure' = IF readOk THEN "none" ELSE "search"
        /\ UNCHANGED <<messagesDb, nextId, now, serviceVars, envVars, chatVars,
                       identVars, maintVars, uiVars>>

\* --------------------------------------------------------- clearOldMessages
\* 24 * 60 * 60 * 1000
MsPerDay == 86400000

\* The daysToKeep passed to clearOldMessages.  The default of 30 days is past
\* the integers of the model checker; like one day it puts the cutoff before
\* every timestamp of the model.
DaysToKeep == {0, 1}

\* messageData objects saved before a purge: an old and a recent timestamp.
PurgeInputs ==
    [userId : {"u1"}, nickname : {<<>>}, roomId : {RoomA},
     text : {Hi}, timestamp : {1, MaxTime}]

\* const cutoffTime = Date.now() - (daysToKeep * 24 * 60 * 60 * 1000)
cutoffTime(clock, daysToKeep) == clock - daysToKeep * MsPerDay

\* A purge that also deletes the records stamped with the cutoff itself.
clearOldMessagesDb_BelowOrEqual(db, cutoff, deleteOk) ==
    IF deleteOk THEN SelectSeq(db, LAMBDA r : ~(r.timestamp <= cutoff)) ELSE db

\* db.messages.where('timestamp').below(cutoffTime).delete(): the records whose
\* timestamp is below the cutoff are deleted in one transaction; a rejected
\* delete changes nothing.
clearOldMessagesDb(db, cutoff, deleteOk) ==
    IF deleteOk THEN SelectSeq(db, LAMBDA r : ~(r.timestamp < cutoff)) ELSE db

\* { success: true, count } or, from the catch block, { success: false, error }.
clearOldMessagesResult(db, cutoff, deleteOk) ==
    [called |-> TRUE, success |-> deleteOk, cutoff |-> cutoff,
     count |-> Len(db) - Len(clearOldMessagesDb(db, cutoff, deleteOk))]

\* A call of clearOldMessages(daysToKeep).
ClearOldMessages ==
    \E daysToKeep \in DaysToKeep, deleteOk \in BOOLEAN :
      \E clock \in now..MaxTime :
        /\ now' = clock
        /\ messagesDb' = clearOldMessagesDb(messagesDb, cutoffTime(clock, daysToKeep),
                                            deleteOk)
        /\ lastClear' = clearOldMessagesResult(messagesDb,
                                               cutoffTime(clock, daysToKeep),
                                               deleteOk)
        /\ lastGet' = NoGet
        /\ lastSearch' = NoSearch
        /\ storeFailure' = IF deleteOk THEN "none" ELSE "clear"
        /\ UNCHANGED <<nextId, roomsDb, lastRooms, serviceVars, envVars, chatVars,
                       identVars, uiVars>>

\* saveMessage before a purge; ids are not reused after a delete, and the
\* model stops adding when they run out.
SaveMessageToPurge ==
    /\ nextId <= MaxMsgs
    /\ SaveMessageOf(PurgeInputs)

PurgeNext ==
    \/ SaveMessageToPurge
    \/ ClearOldMessages

\* ------------------------------------------------------------------ rooms
\* db.version(1).stores({ rooms: 'id, name, createdAt' }): the primary key and
\* the indexes of the rooms table.
RoomsIndexes == {"id", "name", "createdAt"}

\* roomData objects handed to saveRoom: with and without a name and a
\* createdAt.
RoomInputs ==
    [id : StoreRooms, name : {<<>>, Hi}, createdAt : {0, 1}]

\* `Room for ${roomData.videoId}`
DefaultRoomName(video) == <<"R", video>>

\* The row that saveRoom hands to db.rooms.put; the video of a room is the one
\* its id was made for.
saveRoomRow(roomData, clock) ==
    [id         |-> roomData.id,
     name       |-> IF roomData.name = <<>> THEN DefaultRoomName(roomData.id[1])
                    ELSE roomData.name,
     videoId    |-> roomData.id[1],
     createdAt  |-> IF roomData.createdAt = 0 THEN clock ELSE roomData.createdAt,
     lastActive |-> clock]

\* db.rooms.put(row): the row replaces the row of the same id; a rejected put
\* changes nothing.
saveRoom(rows, roomData, clock, putOk) ==
    IF putOk
    THEN {r \in rows : r.id # roomData.id} \cup {saveRoomRow(roomData, clock)}
    ELSE rows

\* The order of two room ids as strings.
RoomIdBefore(a, b) ==
    \/ a[1] = "vA" /\ b[1] = "vB"
    \/ a[1] = b[1] /\ a[2] < b[2]

\* Table.orderBy(index): the rows in the order of the index, rows of equal key
\* in primary-key order.
RECURSIVE orderBy(_, _)
orderBy(rows, index) ==
    IF rows = {} THEN <<>>
    ELSE LET first == CHOOSE r \in rows :
                          \A q \in rows \ {r} :
                              \/ r[index] < q[index]
                              \/ r[index] = q[index] /\ RoomIdBefore(r.id, q.id)
         IN  <<first>> \o orderBy(rows \ {first}, index)

\* getRooms(): db.rooms.orderBy('lastActive').reverse().toArray().  A key path
\* that the schema does not index makes the query reject ("KeyPath lastActive
\* on object store rooms is not indexed"), as does a failing read; the catch
\* block returns [].
getRoomsFailed(readOk) == ~readOk \/ "lastActive" \notin RoomsIndexes

getRooms(rows, readOk) ==
    IF getRoomsFailed(readOk) THEN <<>>
    ELSE Reverse(orderBy(rows, "lastActive"))

\* A call of saveRoom(roomData).
SaveRoom ==
    \E roomData \in RoomInputs, putOk \in BOOLEAN :
      \E clock \in now..MaxTime :
        /\ now' = clock
        /\ roomsDb' = saveRoom(roomsDb, roomData, clock, putOk)
        /\ lastRooms' = NoRooms
        /\ storeFailure' = IF putOk THEN "none" ELSE "room.save"
        /\ cleanups' = 0
        /\ UNCHANGED <<messagesDb, nextId, lastGet, lastSearch, lastClear,
                       serviceVars, peerObj, connObj, storedPeerId, uuidCtr, pc,
                       initRes, joinRes, teardown, chatVars, identVars, uiVars>>

\* A call of getRooms(), as Popup.loadData makes it.
GetRooms ==
    \E readOk \in BOOLEAN :
        /\ lastRooms' = [called |-> TRUE, result |-> getRooms(roomsDb, readOk)]
        /\ storeFailure' = IF "lastActive" \notin RoomsIndexes THEN "rooms.index"
                           ELSE IF ~readOk THEN "rooms.get" ELSE "none"
        /\ cleanups' = 0
        /\ UNCHANGED <<storeVars, roomsDb, lastClear, serviceVars, peerObj,
                       connObj, storedPeerId, uuidCtr, pc, initRes, joinRes,
                       teardown, chatVars, identVars, uiVars>>

RoomsNext ==
    \/ SaveRoom
    \/ GetRooms

StoreNext ==
    \/ SaveMessage
    \/ GetMessagesForRoom
    \/ SearchMessages


\* ================================================================ P2PService
Videos == {"vA"}
Remotes == {"p1"}
PeerObjs == 1..MaxPeerObj
ConnObjs == 1..MaxConnObj

NoConn == [remote |-> "none", st |-> "none", owner |-> 0]
NoInit == [status |-> "none", peerId |-> 0, roomId |-> NoRoom,
           usingFallback |-> FALSE, meshFailed |-> FALSE,
           relayTried |-> FALSE, relayOk |-> FALSE]
NoJoin == [status |-> "none", roomId |-> NoRoom, messages |-> <<>>]

NoData == [userId |-> "none", nickname |-> <<>>, roomId |-> NoRoom,
           text |-> <<>>, timestamp |-> 0]
NoSend == [called |-> FALSE, success |-> FALSE, data |-> NoData,
           via |-> "none", to |-> {}]
NoInput == [called |-> FALSE, data |-> NoData]

\* No nickname is stored; no initializeP2P has returned.
NoNickname == [has |-> FALSE, name |-> <<>>]
NoBgInit == [status |-> "none", peerId |-> 0, roomId |-> NoRoom]

\* constructor()
ServiceInit ==
    /\ videoId = "null"
    /\ peerId = 0
    /\ roomId = NoRoom
    /\ peer = 0
    /\ socket = "null"
    /\ connections = [p \in Remotes |-> 0]
    /\ useWebSocketFallback = FALSE
    /\ peerObj = [k \in PeerObjs |-> "none"]
    /\ connObj = [c \in ConnObjs |-> NoConn]
    /\ storedPeerId = 0
    /\ uuidCtr = 0
    /\ pc = "idle"
    /\ initRes = NoInit
    /\ joinRes = NoJoin
    /\ teardown = FALSE
    /\ cleanups = 0
    /\ messageCallbacks = <<>>
    /\ notified = <<>>
    /\ deliveries = <<>>
    /\ feed = <<>>
    /\ lastSend = NoSend
    /\ lastInput = NoInput
    /\ storedUserId = 0
    /\ storedNickname = NoNickname
    /\ usersDb = {}
    /\ currentRoom = NoRoom
    /\ bgPeerId = 0
    /\ bgInitRes = NoBgInit
    /\ popupUserId = 0
    /\ staleHandlers = {}
    /\ location = "other"
    /\ widgets = <<>>
    /\ initRequests = <<>>
    /\ loadState = "loading"
    /\ observers = 0
    /\ observed = FALSE
    /\ closedOn = "none"
    /\ tabMessages = <<>>

FreePeerObj == CHOOSE k \in PeerObjs :
                  peerObj[k] = "none" /\ \A j \in PeerObjs : peerObj[j] = "none" => k <= j
FreeConnObj == CHOOSE c \in ConnObjs :
                  connObj[c].st = "none"
                  /\ \A d \in ConnObjs : connObj[d].st = "none" => c <= d

\* `yt-${videoId}-${uuidv4().substring(0, 8)}`
MakeRoomId(video, uuid) == <<video, uuid>>

\* initialize(videoId), up to the first await (chrome.storage.local.get).
InitializeStart ==
    \E video \in Videos :
        /\ pc = "idle"
        /\ uuidCtr + 2 <= MaxUuid
        /\ \E k \in PeerObjs : peerObj[k] = "none"
        /\ videoId' = video
        /\ pc' = "get"
        /\ teardown' = FALSE
        /\ cleanups' = 0
        /\ UNCHANGED <<identVars, maintVars, uiVars>>
        /\ storeFailure' = "none"
        /\ UNCHANGED <<chatVars, storeVars, peerId, roomId, peer, socket, connections,
                       useWebSocketFallback, peerObj, connObj, storedPeerId,
                       uuidCtr, initRes, joinRes>>

\* this.roomId = ...; await this.initializePeerJS(): the room id is made, a
\* Peer is created and initialize waits for its 'open' or 'error' event.
initializePeerJS(uuidsUsed) ==
    /\ roomId' = MakeRoomId(videoId, uuidsUsed + 1)
    /\ uuidCtr' = uuidsUsed + 1
    /\ peer' = FreePeerObj
    /\ peerObj' = [peerObj EXCEPT ![FreePeerObj] = "connecting"]
    /\ pc' = "peer"

\* initializeWebSocketFallback(): io(...) returns a socket (ioOk) or throws.
initializeWebSocketFallback(ioOk, meshFailed) ==
    /\ socket' = IF ioOk THEN "connecting" ELSE socket
    /\ initRes' = [status |-> IF ioOk THEN "ok" ELSE "error",
                   peerId |-> IF ioOk THEN peerId ELSE 0,
                   roomId |-> IF ioOk THEN roomId ELSE NoRoom,
                   usingFallback |-> ioOk, meshFailed |-> meshFailed,
                   relayTried |-> TRUE, relayOk |-> ioOk]

\* The catch block of initialize: one fallback to the relay, else an error.
initializeCatch(meshFailed) ==
    /\ pc' = "idle"
    /\ IF ~useWebSocketFallback
       THEN /\ useWebSocketFallback' = TRUE
            /\ \E ioOk \in BOOLEAN : initializeWebSocketFallback(ioOk, meshFailed)
       ELSE /\ useWebSocketFallback' = useWebSocketFallback
            /\ socket' = socket
            /\ initRes' = [NoInit EXCEPT !.status = "error",
                                         !.meshFailed = meshFailed]

\* chrome.storage.local.get(['peerId']) resolves.
StorageGetOk ==
    /\ pc = "get"
    /\ cleanups' = 0
    /\ UNCHANGED <<identVars, maintVars, uiVars>>
    /\ storeFailure' = "none"
    /\ IF storedPeerId # 0
       THEN /\ peerId' = storedPeerId
            /\ initializePeerJS(uuidCtr)
       ELSE /\ peerId' = uuidCtr + 1
            /\ uuidCtr' = uuidCtr + 1
            /\ pc' = "set"
            /\ UNCHANGED <<roomId, peer, peerObj>>
    /\ UNCHANGED <<chatVars, storeVars, videoId, socket, connections, useWebSocketFallback,
                   connObj, storedPeerId, initRes, joinRes, teardown>>

\* chrome.storage.local.get rejects.
StorageGetFail ==
    /\ pc = "get"
    /\ cleanups' = 0
    /\ UNCHANGED <<identVars, maintVars, uiVars>>
    /\ storeFailure' = "none"
    /\ initializeCatch(FALSE)
    /\ UNCHANGED <<chatVars, storeVars, videoId, peerId, roomId, peer, connections, peerObj,
                   connObj, storedPeerId, uuidCtr, joinRes, teardown>>

\* chrome.storage.local.set({ peerId }) resolves.
StorageSetOk ==
    /\ pc = "set"
    /\ cleanups' = 0
    /\ UNCHANGED <<identVars, maintVars, uiVars>>
    /\ storeFailure' = "none"
    /\ storedPeerId' = peerId
    /\ initializePeerJS(uuidCtr)
    /\ UNCHANGED <<chatVars, storeVars, videoId, peerId, socket, connections,
                   useWebSocketFallback, connObj, initRes, joinRes, teardown>>

\* chrome.storage.local.set rejects.
StorageSetFail ==
    /\ pc = "set"
    /\ cleanups' = 0
    /\ UNCHANGED <<identVars, maintVars, uiVars>>
    /\ storeFailure' = "none"
    /\ initializeCatch(FALSE)
    /\ UNCHANGED <<chatVars, storeVars, videoId, peerId, roomId, peer, connections, peerObj,
                   connObj, storedPeerId, uuidCtr, joinRes, teardown>>

\* peer.on('open'): setupPeerEventListeners(), resolve(); initialize returns.
PeerOpen ==
    \E k \in PeerObjs :
        /\ peerObj[k] = "connecting"
        /\ peerObj' = [peerObj EXCEPT ![k] = "open"]
        /\ cleanups' = 0
        /\ UNCHANGED <<identVars, maintVars, uiVars>>
        /\ storeFailure' = "none"
        /\ IF pc = "peer" /\ peer = k
           THEN /\ pc' = "idle"
                /\ initRes' = [NoInit EXCEPT !.status = "ok", !.peerId = peerId,
                                             !.roomId = roomId]
           ELSE UNCHANGED <<pc, initRes>>
        /\ UNCHANGED <<chatVars, storeVars, serviceVars, connObj, storedPeerId, uuidCtr,
                       joinRes, teardown>>

\* peer.on('error') before the Peer is open: reject(error), caught by initialize.
PeerError ==
    \E k \in PeerObjs :
        /\ peerObj[k] = "connecting"
        /\ peerObj' = [peerObj EXCEPT ![k] = "failed"]
        /\ cleanups' = 0
        /\ UNCHANGED <<identVars, maintVars, uiVars>>
        /\ storeFailure' = "none"
        /\ IF pc = "peer" /\ peer = k
           THEN initializeCatch(TRUE)
           ELSE UNCHANGED <<pc, initRes, socket, useWebSocketFallback>>
        /\ UNCHANGED <<chatVars, storeVars, videoId, peerId, roomId, peer, connections,
                       connObj, storedPeerId, uuidCtr, joinRes, teardown>>

\* handleConnection(conn): this.connections[conn.peer] = conn.
handleConnection(c, remote, owner) ==
    /\ connObj' = [connObj EXCEPT ![c] = [remote |-> remote, st |-> "connecting",
                                          owner |-> owner]]
    /\ connections' = [connections EXCEPT ![remote] = c]

\* peer.on('connection'): a remote peer connects to an open Peer.
PeerConnection ==
    \E k \in PeerObjs, remote \in Remotes :
        /\ peerObj[k] = "open"
        /\ \E c \in ConnObjs : connObj[c].st = "none"
        /\ handleConnection(FreeConnObj, remote, k)
        /\ cleanups' = 0
        /\ UNCHANGED <<identVars, maintVars, uiVars>>
        /\ storeFailure' = "none"
        /\ UNCHANGED <<chatVars, storeVars, videoId, peerId, roomId, peer, socket,
                       useWebSocketFallback, peerObj, storedPeerId, uuidCtr, pc,
                       initRes, joinRes, teardown>>

\* connectToPeer(remotePeerId): the existing connection, or a new one made by
\* this.peer.connect.  Without an open Peer the call throws and changes nothing.
ConnectToPeer ==
    \E remote \in Remotes :
        /\ cleanups' = 0
        /\ UNCHANGED <<identVars, maintVars, uiVars>>
        /\ storeFailure' = "none"
        /\ IF /\ connections[remote] = 0
              /\ peer # 0
              /\ peerObj[peer] = "open"
              /\ \E c \in ConnObjs : connObj[c].st = "none"
           THEN handleConnection(FreeConnObj, remote, peer)
           ELSE UNCHANGED <<connObj, connections>>
        /\ UNCHANGED <<chatVars, storeVars, videoId, peerId, roomId, peer, socket,
                       useWebSocketFallback, peerObj, storedPeerId, uuidCtr, pc,
                       initRes, joinRes, teardown>>

\* conn.on('open')
ConnOpen ==
    \E c \in ConnObjs :
        /\ connObj[c].st = "connecting"
        /\ connObj' = [connObj EXCEPT ![c].st = "open"]
        /\ cleanups' = 0
        /\ UNCHANGED <<identVars, maintVars, uiVars>>
        /\ storeFailure' = "none"
        /\ UNCHANGED <<chatVars, storeVars, serviceVars, peerObj, storedPeerId, uuidCtr, pc,
                       initRes, joinRes, teardown>>

\* conn.on('close') and conn.on('error'): delete this.connections[conn.peer].
ConnEnd(c, st) ==
    /\ connObj[c].st \in {"connecting", "open"}
    /\ connObj' = [connObj EXCEPT ![c].st = st]
    /\ connections' = [connections EXCEPT ![connObj[c].remote] = 0]
    /\ cleanups' = 0
    /\ UNCHANGED <<identVars, maintVars, uiVars>>
    /\ storeFailure' = "none"
    /\ UNCHANGED <<chatVars, storeVars, videoId, peerId, roomId, peer, socket,
                   useWebSocketFallback, peerObj, storedPeerId, uuidCtr, pc,
                   initRes, joinRes, teardown>>

ConnClose == \E c \in ConnObjs : ConnEnd(c, "closed")

ConnError == \E c \in ConnObjs : ConnEnd(c, "errored")

\* socket.on('connect'): the socket is connected and emits join-room.
SocketConnect ==
    /\ socket = "connecting"
    /\ socket' = "connected"
    /\ cleanups' = 0
    /\ UNCHANGED <<identVars, maintVars, uiVars>>
    /\ storeFailure' = "none"
    /\ UNCHANGED <<chatVars, storeVars, videoId, peerId, roomId, peer, connections,
                   useWebSocketFallback, peerObj, connObj, storedPeerId, uuidCtr,
                   pc, initRes, joinRes, teardown>>

\* A joinRoom that would leave the room and drop the connections when its read
\* of the store fails.
joinRoomFields_ResetOnReadFailure(room) ==
    /\ roomId' = IF storeFailure' = "join.get" THEN NoRoom ELSE room
    /\ connections' = IF storeFailure' = "join.get"
                      THEN [r \in Remotes |-> 0] ELSE connections
    /\ UNCHANGED <<videoId, peerId, peer, socket, useWebSocketFallback>>

\* Of the fields of the service, joinRoom assigns this.roomId and no other.
joinRoomFields(room) ==
    /\ roomId' = room
    /\ UNCHANGED <<videoId, peerId, peer, socket, connections,
                   useWebSocketFallback>>

\* joinRoom(roomId): the room is set, join-room is emitted on the relay socket
\* when the fallback is in use (a TypeError when there is no socket, caught),
\* and the stored messages of the room are loaded.
JoinRoom ==
    \E room \in {RoomA}, readOk \in BOOLEAN :
        /\ IF useWebSocketFallback /\ socket = "null"
           THEN /\ joinRes' = [NoJoin EXCEPT !.status = "error"]
                /\ storeFailure' = "none"
           ELSE /\ joinRes' = [status |-> "ok", roomId |-> room,
                               messages |-> getMessagesForRoomResult(
                                               messagesDb, room, DefaultLimit,
                                               readOk)]
                /\ storeFailure' = IF getMessagesForRoomFailed(room, readOk)
                                   THEN "join.get" ELSE "none"
        /\ joinRoomFields(room)
        /\ cleanups' = 0
        /\ UNCHANGED <<identVars, maintVars, uiVars>>
        /\ UNCHANGED <<chatVars, storeVars, peerObj, connObj, storedPeerId,
                       uuidCtr, pc, initRes, teardown>>

\* this.peer.destroy(): the Peer and its connections are closed; destroying a
\* Peer that is already closed does nothing.
cleanupPeerObj(ps, p) ==
    IF p # 0 /\ ps[p] \in {"connecting", "open"}
    THEN [ps EXCEPT ![p] = "destroyed"]
    ELSE ps

cleanupConnObj(cs, p) ==
    [c \in ConnObjs |->
        IF p # 0 /\ cs[c].owner = p /\ cs[c].st \in {"connecting", "open"}
        THEN [cs[c] EXCEPT !.st = "closed"]
        ELSE cs[c]]

\* this.socket.disconnect()
cleanupSocket(so) ==
    IF so \in {"connecting", "connected"} THEN "disconnected" ELSE so

\* The 'close' handlers of the connections that destroy() closed have deleted
\* their entries; nothing else is cleared.
cleanupConnections_OnlyClosed(conns, cs, p) ==
    [r \in Remotes |->
        IF \E c \in ConnObjs : /\ cs[c].remote = r /\ cs[c].owner = p /\ p # 0
                                /\ cs[c].st \in {"connecting", "open"}
        THEN 0 ELSE conns[r]]

\* this.connections = {}
cleanupConnections(conns, cs, p) == [r \in Remotes |-> 0]

\* cleanup().  An initialize call that awaits the 'open' or 'error' event of the
\* Peer destroyed here is never resumed: a destroyed Peer emits neither.
cleanup ==
    /\ peerObj' = cleanupPeerObj(peerObj, peer)
    /\ connObj' = cleanupConnObj(connObj, peer)
    /\ socket' = cleanupSocket(socket)
    /\ connections' = cleanupConnections(connections, connObj, peer)
    /\ pc' = IF pc = "peer" THEN "idle" ELSE pc
    /\ teardown' = (teardown \/ pc = "peer")
    /\ cleanups' = IF cleanups < 2 THEN cleanups + 1 ELSE 2
    /\ storeFailure' = "none"
    /\ UNCHANGED <<chatVars, storeVars, videoId, peerId, roomId, peer, useWebSocketFallback,
                   storedPeerId, uuidCtr, initRes, joinRes>>

\* A call of p2pService.cleanup().
Cleanup ==
    /\ cleanup
    /\ UNCHANGED <<identVars, maintVars, uiVars>>

\* A ChatContainer that has registered its handler is unmounted: the cleanup
\* function of its effect calls p2pService.cleanup().  Its handler stays in
\* messageCallbacks: the service has no call that removes one.
ChatContainerUnmount ==
    /\ Range(messageCallbacks) # staleHandlers
    /\ cleanup
    /\ staleHandlers' = Range(messageCallbacks)
    /\ UNCHANGED <<identVars, maintVars, location, widgets, initRequests,
                   loadState, observers, observed, closedOn, tabMessages>>

\* ================================================================ messaging
LocalUser == "u1"

\* Messages arriving from other participants.
WireMsgs ==
    {[userId |-> "u2", nickname |-> <<>>, roomId |-> RoomA, text |-> Hi,
      timestamp |-> 1],
     [userId |-> "u2", nickname |-> <<"h">>, roomId |-> RoomA, text |-> Script,
      timestamp |-> MaxTime]}

\* messageData objects handed to P2PService.sendMessage by a direct caller.
SendInputs ==
    {[userId |-> LocalUser, nickname |-> <<>>, roomId |-> RoomA, text |-> Ih,
      timestamp |-> MaxTime]}

\* messageData objects with blank text handed to P2PService.sendMessage.
BlankInputs ==
    {[userId |-> LocalUser, nickname |-> <<>>, roomId |-> RoomA,
      text |-> blank, timestamp |-> MaxTime] : blank \in {<<>>, <<" ">>}}

\* What the user types into the input box.
InputTexts == {<<>>, <<" ">>, Hi}

\* String.prototype.trim() on the texts of the model: blanks are removed at
\* both ends.
RECURSIVE TrimLeft(_)
TrimLeft(text) ==
    IF text # <<>> /\ Head(text) = " " THEN TrimLeft(Tail(text)) ELSE text

Trim(text) == Reverse(TrimLeft(Reverse(TrimLeft(text))))

\* The remote peers whose connection in this.connections is open.
OpenRemotes ==
    {r \in Remotes : connections[r] # 0 /\ connObj[connections[r]].st = "open"}

\* sendMessage(messageData): the message is saved (the result of saveMessage is
\* not looked at), then emitted on the relay socket or sent on every open
\* connection.  this.socket.emit throws when there is no socket, and the catch
\* returns the error.
sendMessageResult(messageData) ==
    IF useWebSocketFallback
    THEN IF socket = "null"
         THEN [called |-> TRUE, success |-> FALSE, data |-> messageData,
               via |-> "none", to |-> {}]
         ELSE [called |-> TRUE, success |-> TRUE, data |-> messageData,
               via |-> "relay", to |-> {}]
    ELSE [called |-> TRUE, success |-> TRUE, data |-> messageData,
          via |-> "mesh", to |-> OpenRemotes]

\* What the caller of sendMessage gets back: { success: true } or
\* { success: false, error }.
sendMessageReturned(result) == [success |-> result.success]

sendMessage(messageData, addOk, clock) ==
    /\ messagesDb' = saveMessageDb(messagesDb, messageData, nextId, clock, addOk)
    /\ nextId' = IF addOk THEN nextId + 1 ELSE nextId
    /\ storeFailure' = IF addOk THEN "none" ELSE "send.save"
    /\ lastSend' = sendMessageResult(messageData)

\* A direct call of p2pService.sendMessage(messageData), messageData being
\* one of inputs.
SendMessageOf(inputs) ==
    \E messageData \in inputs, addOk \in BOOLEAN :
        /\ Len(messagesDb) < MaxMsgs
        /\ sendMessage(messageData, addOk, now)
        /\ cleanups' = 0
        /\ UNCHANGED <<identVars, maintVars, uiVars>>
        /\ UNCHANGED <<now, lastGet, lastSearch, serviceVars, peerObj, connObj,
                       storedPeerId, uuidCtr, pc, initRes, joinRes, teardown,
                       messageCallbacks, notified, deliveries, feed, lastInput>>

SendMessage == SendMessageOf(SendInputs)

SendBlankMessage == SendMessageOf(BlankInputs)

\* InputBox.sendMessage: blank text returns at once; a rejected
\* chrome.storage.local.get is caught and logged; otherwise the message is
\* sent and, when the result says success, handed to onMessageSent, which
\* appends it to the feed.
onMessageSent(messages, result, messageData) ==
    IF result.success THEN Append(messages, messageData) ELSE messages

InputBoxSendMessage ==
    \E messageText \in InputTexts, getOk \in BOOLEAN, addOk \in BOOLEAN :
      \E clock \in now..MaxTime :
        /\ Trim(messageText) # <<>>
        /\ Len(messagesDb) < MaxMsgs
        /\ Len(feed) < MaxSends
        /\ cleanups' = 0
        /\ UNCHANGED <<identVars, maintVars, uiVars>>
        /\ LET messageData == [userId |-> LocalUser, nickname |-> <<>>,
                               roomId |-> roomId, text |-> messageText,
                               timestamp |-> clock]
           IN  /\ lastInput' = [called |-> TRUE, data |-> messageData]
               /\ IF getOk
                  THEN /\ now' = clock
                       /\ sendMessage(messageData, addOk, clock)
                       /\ feed' = onMessageSent(feed, lastSend', messageData)
                  ELSE /\ storeFailure' = "none"
                       /\ UNCHANGED <<now, messagesDb, nextId, lastSend, feed>>
        /\ UNCHANGED <<lastGet, lastSearch, serviceVars, peerObj, connObj,
                       storedPeerId, uuidCtr, pc, initRes, joinRes, teardown,
                       messageCallbacks, notified, deliveries>>

\* The input box is used with blank text: `if (!messageText.trim()) return`.
InputBoxBlank ==
    \E messageText \in InputTexts :
        /\ Trim(messageText) = <<>>
        /\ UNCHANGED vars

\* onMessage(callback)
OnMessage ==
    /\ Len(messageCallbacks) < MaxHandlers
    /\ messageCallbacks' = Append(messageCallbacks, Len(messageCallbacks) + 1)
    /\ cleanups' = 0
    /\ UNCHANGED <<identVars, maintVars, uiVars>>
    /\ storeFailure' = "none"
    /\ UNCHANGED <<storeVars, serviceVars, peerObj, connObj, storedPeerId,
                   uuidCtr, pc, initRes, joinRes, teardown, notified, deliveries,
                   feed, lastSend, lastInput>>

\* A handleIncomingMessage that would put the newest message first, in the
\* store and in what the subscribers are told.
handleIncomingMessage_NewestFirst(data, addOk, clock) ==
    /\ messagesDb' = IF addOk
                     THEN <<saveMessageRecord(data, nextId, clock)>> \o messagesDb
                     ELSE messagesDb
    /\ nextId' = IF addOk THEN nextId + 1 ELSE nextId
    /\ storeFailure' = IF addOk THEN "none" ELSE "incoming.save"
    /\ notified' = [i \in 1..Len(messageCallbacks) |->
                       <<messageCallbacks[i], data>>] \o notified
    /\ deliveries' = Append(deliveries, data)

\* handleIncomingMessage(data): saveMessage(data) is started (its result is not
\* looked at) and every registered callback is called with data.
handleIncomingMessage(data, addOk, clock) ==
    /\ messagesDb' = saveMessageDb(messagesDb, data, nextId, clock, addOk)
    /\ nextId' = IF addOk THEN nextId + 1 ELSE nextId
    /\ storeFailure' = IF addOk THEN "none" ELSE "incoming.save"
    /\ notified' = notified \o [i \in 1..Len(messageCallbacks) |->
                                   <<messageCallbacks[i], data>>]
    /\ deliveries' = Append(deliveries, data)

IncomingFrame ==
    /\ Len(messagesDb) < MaxMsgs
    /\ Len(deliveries) < MaxDeliveries
    /\ cleanups' = 0
    /\ UNCHANGED <<identVars, maintVars, uiVars>>
    /\ UNCHANGED <<now, lastGet, lastSearch, serviceVars, peerObj, connObj, storedPeerId,
                   uuidCtr, pc, initRes, joinRes, teardown,
                   messageCallbacks, feed, lastSend, lastInput>>

\* conn.on('data'): a message arrives on an open connection.
ConnData ==
    \E c \in ConnObjs, data \in WireMsgs, addOk \in BOOLEAN :
        /\ connObj[c].st = "open"
        /\ handleIncomingMessage(data, addOk, now)
        /\ IncomingFrame

\* socket.on('chat-message'): a message arrives on the connected relay socket.
SocketChatMessage ==
    \E data \in WireMsgs, addOk \in BOOLEAN :
        /\ socket = "connected"
        /\ handleIncomingMessage(data, addOk, now)
        /\ IncomingFrame

\* ================================================================= identity
\* What the user types into a nickname field.
NicknameInputs == {<<>>, <<" ">>, <<" ", "h">>, Hi, Script}

\* The identity handlers leave the store, the service and the chat alone.
IdentityFrame ==
    /\ cleanups' = 0
    /\ storeFailure' = "none"
    /\ UNCHANGED <<storeVars, serviceVars, chatVars, peerObj, connObj,
                   storedPeerId, pc, initRes, joinRes, teardown, maintVars,
                   uiVars>>

\* chrome.runtime.onInstalled: the stored userId is read and, when there is
\* none, a new one is generated and stored.  A rejected storage call ends the
\* listener.
OnInstalled ==
    \E getOk \in BOOLEAN, setOk \in BOOLEAN :
        /\ uuidCtr + 1 <= MaxUuid
        /\ IF getOk /\ storedUserId = 0
           THEN /\ uuidCtr' = uuidCtr + 1
                /\ storedUserId' = IF setOk THEN uuidCtr + 1 ELSE storedUserId
           ELSE UNCHANGED <<uuidCtr, storedUserId>>
        /\ IdentityFrame
        /\ UNCHANGED <<storedNickname, usersDb, currentRoom, bgPeerId, bgInitRes,
                       popupUserId>>

\* initializeP2P(videoId) of the background worker (INIT_P2P): a peer id and a
\* room id are generated and the room is stored.
initializeP2P(video, setOk) ==
    /\ bgPeerId' = uuidCtr + 1
    /\ uuidCtr' = uuidCtr + 2
    /\ currentRoom' = IF setOk THEN MakeRoomId(video, uuidCtr + 2)
                      ELSE currentRoom
    /\ bgInitRes' = IF setOk
                    THEN [status |-> "ok", peerId |-> uuidCtr + 1,
                          roomId |-> MakeRoomId(video, uuidCtr + 2)]
                    ELSE [NoBgInit EXCEPT !.status = "error"]

\* A call of initializeP2P(videoId).
BackgroundInitializeP2P ==
    \E video \in Videos, setOk \in BOOLEAN :
        /\ uuidCtr + 2 <= MaxUuid
        /\ initializeP2P(video, setOk)
        /\ IdentityFrame
        /\ UNCHANGED <<storedUserId, storedNickname, usersDb, popupUserId>>

\* Popup.loadData: the popup reads the stored userId.
PopupLoadData ==
    \E getOk \in BOOLEAN :
        /\ popupUserId' = IF getOk /\ storedUserId # 0 THEN storedUserId
                          ELSE popupUserId
        /\ IdentityFrame
        /\ UNCHANGED <<storedUserId, storedNickname, usersDb, currentRoom,
                       bgPeerId, bgInitRes, uuidCtr>>

\* updateUser(userData): db.users.put replaces the row of the id; a rejected
\* put is caught.
updateUser(users, id, name, putOk) ==
    IF putOk THEN {u \in users : u.id # id} \cup {[id |-> id, nickname |-> name]}
    ELSE users

\* Popup.saveNickname: the nickname in the field is stored as it is and, when
\* the popup knows the userId, written to the users table.
PopupSaveNickname ==
    \E name \in NicknameInputs, setOk \in BOOLEAN, putOk \in BOOLEAN :
        /\ storedNickname' = IF setOk THEN [has |-> TRUE, name |-> name]
                             ELSE storedNickname
        /\ usersDb' = IF setOk /\ popupUserId # 0
                      THEN updateUser(usersDb, popupUserId, name, putOk)
                      ELSE usersDb
        /\ IdentityFrame
        /\ UNCHANGED <<storedUserId, currentRoom, bgPeerId, bgInitRes,
                       popupUserId, uuidCtr>>

\* ChatHeader.saveNickname: the trimmed nickname is sanitized and stored when
\* something is left of it.
ChatHeaderSaveNickname ==
    \E name \in NicknameInputs, setOk \in BOOLEAN :
        /\ LET sanitizedNickname == Sanitize(Trim(name))
           IN  storedNickname' = IF sanitizedNickname # <<>> /\ setOk
                                 THEN [has |-> TRUE, name |-> sanitizedNickname]
                                 ELSE storedNickname
        /\ IdentityFrame
        /\ UNCHANGED <<storedUserId, usersDb, currentRoom, bgPeerId, bgInitRes,
                       popupUserId, uuidCtr>>

IdentityNext ==
    \/ OnInstalled
    \/ BackgroundInitializeP2P
    \/ PopupLoadData
    \/ PopupSaveNickname
    \/ ChatHeaderSaveNickname

\* =========================================================== content script
\* The videos of the watch pages the user visits.
PageVideos == {"vA", "vB"}

\* The content script and the worker leave the store, the service, the chat
\* and the participant alone.
ContentFrame ==
    /\ cleanups' = 0
    /\ storeFailure' = "none"
    /\ UNCHANGED <<storeVars, serviceVars, chatVars, peerObj, connObj,
                   storedPeerId, pc, initRes, joinRes, teardown, maintVars,
                   storedUserId, storedNickname, usersDb, popupUserId,
                   staleHandlers>>

\* The rooms the user picks in the popup.
JoinRooms == {RoomA, RoomB}

\* The user opens a page or follows a link: YouTube changes window.location
\* without loading a new document.
Navigate ==
    \E target \in PageVideos \cup {"other"} :
        /\ target # location
        /\ location' = target
        /\ observed' = FALSE
        /\ closedOn' = "none"
        /\ ContentFrame
        /\ UNCHANGED <<widgets, initRequests, loadState, observers, tabMessages,
                       uuidCtr, currentRoom, bgPeerId, bgInitRes>>

\* document.getElementById('yt-p2p-chat') finds an element.
hasChatInterface_Never(elements) == FALSE

hasChatInterface(elements) == elements # <<>>

\* injectChatInterface(videoId): the widget is added to the page and
\* initializeP2P sends INIT_P2P to the worker.
injectChatInterface(video) ==
    /\ widgets' = Append(widgets, video)
    /\ initRequests' = Append(initRequests, video)

\* initMutationObserver(): an observer is started and, on a watch page
\* without a widget, the widget is injected.
initMutationObserver ==
    /\ observers' = observers + 1
    /\ IF location \in PageVideos /\ ~hasChatInterface(widgets)
       THEN injectChatInterface(location)
       ELSE UNCHANGED <<widgets, initRequests>>

\* The content script runs in the page.  It listens for DOMContentLoaded and,
\* when document.readyState is 'interactive' or 'complete', calls
\* initMutationObserver at once.  At 'interactive' the DOMContentLoaded event
\* may still be to come.
ContentScriptRun ==
    \E readyState \in {"loading", "interactive", "complete"},
       fired \in BOOLEAN :
        /\ loadState = "loading"
        /\ uuidCtr + 2 * (Len(initRequests) + 1) <= MaxUuid
        /\ readyState = "loading" => ~fired
        /\ readyState = "complete" => fired
        /\ loadState' = IF fired THEN "loaded" ELSE "listening"
        /\ IF readyState = "loading"
           THEN UNCHANGED <<observers, widgets, initRequests>>
           ELSE initMutationObserver
        /\ ContentFrame
        /\ UNCHANGED <<location, observed, closedOn, tabMessages, uuidCtr,
                       currentRoom, bgPeerId, bgInitRes>>

\* The DOMContentLoaded listener of the content script.
DOMContentLoaded ==
    /\ loadState = "listening"
    /\ uuidCtr + 2 * (Len(initRequests) + 1) <= MaxUuid
    /\ loadState' = "loaded"
    /\ initMutationObserver
    /\ ContentFrame
    /\ UNCHANGED <<location, observed, closedOn, tabMessages, uuidCtr,
                   currentRoom, bgPeerId, bgInitRes>>

\* The callback of a MutationObserver: on a watch page without a widget the
\* widget is injected, off the watch pages the widget is removed.
MutationCallback ==
    /\ observers > 0
    /\ uuidCtr + 2 * (Len(initRequests) + 1) <= MaxUuid
    /\ IF location \in PageVideos
       THEN IF ~hasChatInterface(widgets)
            THEN injectChatInterface(location)
            ELSE UNCHANGED <<widgets, initRequests>>
       ELSE /\ widgets' = IF hasChatInterface(widgets) THEN Tail(widgets)
                          ELSE widgets
            /\ UNCHANGED initRequests
    /\ observed' = TRUE
    /\ ContentFrame
    /\ UNCHANGED <<location, loadState, observers, closedOn, tabMessages,
                   uuidCtr, currentRoom, bgPeerId, bgInitRes>>

\* closeButton.onclick: chatContainer.remove().
CloseClick ==
    \E i \in 1..Len(widgets) :
        /\ widgets' = [j \in 1..(Len(widgets) - 1) |->
                          IF j < i THEN widgets[j] ELSE widgets[j + 1]]
        /\ closedOn' = location
        /\ ContentFrame
        /\ UNCHANGED <<location, initRequests, loadState, observers, observed,
                       tabMessages, uuidCtr, currentRoom, bgPeerId, bgInitRes>>

\* chrome.runtime.onMessage of the worker receives an INIT_P2P message and
\* answers with the result of initializeP2P.
OnInitP2P ==
    \E setOk \in BOOLEAN :
        /\ initRequests # <<>>
        /\ initializeP2P(Head(initRequests), setOk)
        /\ initRequests' = Tail(initRequests)
        /\ ContentFrame
        /\ UNCHANGED <<location, widgets, loadState, observers, observed,
                       closedOn, tabMessages>>

\* Popup.joinRoom(roomId): on a watch page JOIN_ROOM is sent to the tab with
\* chrome.tabs.sendMessage and the popup closes; elsewhere an alert is shown.
PopupJoinRoom ==
    \E room \in JoinRooms :
        /\ Len(tabMessages) < MaxJoins
        /\ tabMessages' = IF location \in PageVideos
                          THEN Append(tabMessages, room)
                          ELSE tabMessages
        /\ ContentFrame
        /\ UNCHANGED <<location, widgets, initRequests, loadState, observers,
                       observed, closedOn, uuidCtr, currentRoom, bgPeerId,
                       bgInitRes>>

\* The tab receives a JOIN_ROOM message.  chrome.tabs.sendMessage delivers to
\* the listeners of the content script, not to the listener of the worker; the
\* only listener the content script ever adds acts on CHAT_MESSAGE alone.
TabOnMessage ==
    /\ tabMessages # <<>>
    /\ tabMessages' = Tail(tabMessages)
    /\ ContentFrame
    /\ UNCHANGED <<location, widgets, initRequests, loadState, observers,
                   observed, closedOn, uuidCtr, currentRoom, bgPeerId,
                   bgInitRes>>

\* self.addEventListener('unload', ...): the listener of the worker has an
\* empty body.
BackgroundUnload == UNCHANGED vars

ContentNext ==
    \/ Navigate
    \/ ContentScriptRun
    \/ DOMContentLoaded
    \/ MutationCallback
    \/ CloseClick
    \/ OnInitP2P
    \/ PopupJoinRoom
    \/ TabOnMessage
    \/ BackgroundUnload

Init == StoreInit /\ ServiceInit

Next ==
    \/ InitializeStart
    \/ StorageGetOk
    \/ StorageGetFail
    \/ StorageSetOk
    \/ StorageSetFail
    \/ PeerOpen
    \/ PeerError
    \/ PeerConnection
    \/ ConnectToPeer
    \/ ConnOpen
    \/ ConnClose
    \/ ConnError
    \/ SocketConnect
    \/ JoinRoom
    \/ Cleanup

Spec == Init /\ [][Next]_vars

SpecStore == Init /\ [][StoreNext]_vars

\* Bringing the service up: one initialize after another, inbound connections
\* and the relay socket.
BringUp ==
    \/ InitializeStart
    \/ StorageGetOk
    \/ StorageGetFail
    \/ StorageSetOk
    \/ StorageSetFail
    \/ PeerOpen
    \/ PeerError
    \/ PeerConnection
    \/ ConnOpen
    \/ SocketConnect

\* The service and the messages the local user sends through it.
SendNext ==
    \/ BringUp
    \/ SendMessage
    \/ InputBoxSendMessage
    \/ InputBoxBlank

SpecSend == Init /\ [][SendNext]_vars

\* The service, its subscribers and the messages it receives.
ReceiveNext ==
    \/ BringUp
    \/ OnMessage
    \/ ConnData
    \/ SocketChatMessage

SpecReceive == Init /\ [][ReceiveNext]_vars

\* The service after initialize has returned success: on the Mesh, its Peer
\* open and the connection of a remote peer open; or on the Relay after the
\* Peer failed, the socket connected.
ArrivalInit ==
    /\ StoreInit
    /\ videoId = "vA"
    /\ peerId = 1
    /\ roomId = MakeRoomId("vA", 2)
    /\ peer = 1
    /\ storedPeerId = 1
    /\ uuidCtr = 2
    /\ pc = "idle"
    /\ \/ /\ peerObj = [k \in PeerObjs |-> IF k = 1 THEN "open" ELSE "none"]
          /\ connObj = [c \in ConnObjs |->
                           IF c = 1 THEN [remote |-> "p1", st |-> "open", owner |-> 1]
                           ELSE NoConn]
          /\ connections = [p \in Remotes |-> IF p = "p1" THEN 1 ELSE 0]
          /\ socket = "null"
          /\ useWebSocketFallback = FALSE
          /\ initRes = [NoInit EXCEPT !.status = "ok", !.peerId = 1,
                                       !.roomId = MakeRoomId("vA", 2)]
       \/ /\ peerObj = [k \in PeerObjs |-> IF k = 1 THEN "failed" ELSE "none"]
          /\ connObj = [c \in ConnObjs |-> NoConn]
          /\ connections = [p \in Remotes |-> 0]
          /\ socket = "connected"
          /\ useWebSocketFallback = TRUE
          /\ initRes = [status |-> "ok", peerId |-> 1,
                        roomId |-> MakeRoomId("vA", 2), usingFallback |-> TRUE,
                        meshFailed |-> TRUE, relayTried |-> TRUE,
                        relayOk |-> TRUE]
    /\ joinRes = NoJoin
    /\ teardown = FALSE
    /\ cleanups = 0
    /\ messageCallbacks = <<>>
    /\ notified = <<>>
    /\ deliveries = <<>>
    /\ feed = <<>>
    /\ lastSend = NoSend
    /\ lastInput = NoInput
    /\ storedUserId = 0
    /\ storedNickname = NoNickname
    /\ usersDb = {}
    /\ currentRoom = NoRoom
    /\ bgPeerId = 0
    /\ bgInitRes = NoBgInit
    /\ popupUserId = 0
    /\ staleHandlers = {}
    /\ location = "other"
    /\ widgets = <<>>
    /\ initRequests = <<>>
    /\ loadState = "loading"
    /\ observers = 0
    /\ observed = FALSE
    /\ closedOn = "none"
    /\ tabMessages = <<>>

\* The messages arriving at a service that is up, and the subscribers
\* registering with it.
ArrivalNext ==
    \/ OnMessage
    \/ ConnData
    \/ SocketChatMessage

SpecArrival == ArrivalInit /\ [][ArrivalNext]_vars

\* The service, the ChatContainers that subscribe to it and are unmounted, and
\* the messages it receives.
SubscribeNext ==
    \/ ReceiveNext
    \/ ChatContainerUnmount

SpecSubscribe == Init /\ [][SubscribeNext]_vars

\* The service and the blank messages handed to it.
BlankNext ==
    \/ BringUp
    \/ SendBlankMessage
    \/ InputBoxBlank

SpecBlank == Init /\ [][BlankNext]_vars

\* The identity of the participant: the worker, the popup, the chat header.
SpecIdentity == Init /\ [][IdentityNext]_vars

\* The content script in a page and the worker behind it.  The browser runs
\* the observer callback after every change of the page, and the worker's
\* listener for every message sent to it.
SpecContent ==
    /\ Init /\ [][ContentNext]_vars
    /\ WF_vars(MutationCallback)
    /\ WF_vars(OnInitP2P)

\* The purge of old messages: saveMessage and clearOldMessages.
SpecPurge == Init /\ [][PurgeNext]_vars

\* The rooms table: saveRoom and getRooms.
SpecRooms == Init /\ [][RoomsNext]_vars

\* ================================================================ claims

Ascending(result) ==
    \A i, j \in 1..Len(result) : i < j => result[i].timestamp <= result[j].timestamp

RoomRecords(db, room) == {r \in Range(db) : r.roomId = room}

\* result holds the min(limit, count) records of the room with the largest
\* timestamps, oldest first.
IsMostRecentAscending(result, db, room, limit) ==
    LET records == RoomRecords(db, room)
        count == Cardinality(records)
    IN  /\ Len(result) = (IF limit < count THEN limit ELSE count)
        /\ Range(result) \subseteq records
        /\ Cardinality(Range(result)) = Len(result)
        /\ Ascending(result)
        /\ \A r \in records \ Range(result), x \in Range(result) :
               r.timestamp <= x.timestamp

\* C7: getMessagesForRoom(R, N), when its read succeeds, returns the
\* min(N, count) messages of room R with the largest timestamps, in ascending
\* timestamp order, whatever the order in which the messages were inserted.
C7_MostRecentInTimestampOrder ==
    (lastGet.called /\ storeFailure = "none") =>
        IsMostRecentAscending(lastGet.result, messagesDb, lastGet.roomId,
                              lastGet.limit)

\* C8: searchMessages(R, q) returns only records stored under room R that
\* match q, ordered ascending by timestamp whatever their match scores.
C8_SearchScopedAndAscending ==
    lastSearch.called =>
        /\ \A i \in 1..Len(lastSearch.result) :
              /\ lastSearch.result[i] \in Range(messagesDb)
              /\ lastSearch.result[i].roomId = lastSearch.roomId
              /\ FuseIsMatch(lastSearch.query, lastSearch.result[i])
        /\ Ascending(lastSearch.result)

\* A search returned two records whose score order is the reverse of their
\* timestamp order, while a matching record of another room is stored.
C8_Witness ==
    /\ lastSearch.called
    /\ Len(lastSearch.result) >= 2
    /\ lastSearch.result[1].timestamp < lastSearch.result[2].timestamp
    /\ FuseScore(lastSearch.query, lastSearch.result[1])
           > FuseScore(lastSearch.query, lastSearch.result[2])
    /\ \E r \in Range(messagesDb) :
          r.roomId # lastSearch.roomId /\ FuseIsMatch(lastSearch.query, r)

\* C9: searchMessages(R, "") returns no record, whatever the store holds.
C9_EmptyQueryEmptyResult ==
    (lastSearch.called /\ lastSearch.query = <<>>) => lastSearch.result = <<>>

\* An empty query was run on a room that holds a record with empty text and
\* a record with text.
C9_Witness ==
    /\ lastSearch.called
    /\ lastSearch.query = <<>>
    /\ \E r \in RoomRecords(messagesDb, lastSearch.roomId) : r.text = <<>>
    /\ \E r \in RoomRecords(messagesDb, lastSearch.roomId) : r.text # <<>>


\* ------------------------------------------------------------ the lifecycle
\* C3: whenever initialize has returned after its Mesh connect failed, the
\* Relay connect was attempted, and when that attempt succeeded the result
\* returned to the caller is a success.
C3_MeshFailureFallsBackToRelay ==
    (initRes.status # "none" /\ initRes.meshFailed)
        => /\ initRes.relayTried
           /\ initRes.relayOk => initRes.status = "ok"

\* C4: once the session has fallen back to the Relay (useWebSocketFallback is
\* set), no step creates a Peer, that is, starts a new Mesh connect attempt.
C4_NoMeshAttemptAfterFallback ==
    [][useWebSocketFallback
          => \A k \in PeerObjs : peerObj[k] = "none" => peerObj'[k] = "none"]_vars

\* C5: after cleanup was called while initialize awaited initializePeerJS, and
\* until initialize is called again, no Relay socket is created, initialize
\* reports nothing, and no connection event changes the connections.
C5_TeardownCancelsConnect ==
    [][(teardown /\ teardown')
          => /\ socket' \in {socket, "disconnected"}
             /\ initRes' = initRes
             /\ connections' = [r \in Remotes |-> 0]
             /\ \A c \in ConnObjs : connObj'[c].st \in {connObj[c].st, "closed"}]_vars

\* The session is closed: the Peer of the service is not running, there is no
\* live relay socket and this.connections is empty.
Closed ==
    /\ peer # 0 => peerObj[peer] \notin {"connecting", "open"}
    /\ socket \in {"null", "disconnected"}
    /\ connections = [r \in Remotes |-> 0]

\* C6: after a cleanup the session is closed, and a cleanup that directly
\* follows a cleanup changes nothing: not the fields of the service, not a
\* Peer, not a connection, not the result of initialize.  (Cleanup has no
\* guard and no failing branch: destroying a destroyed Peer and disconnecting
\* a disconnected socket do nothing.)
C6_CleanupIdempotent ==
    [][/\ cleanups' >= 1 => Closed'
       /\ cleanups' = 2 => UNCHANGED <<serviceVars, peerObj, connObj, pc, initRes>>]_vars

\* cleanup has been called twice in a row on a session that had a Peer, a
\* relay socket and a connection to tear down.
C6_Witness ==
    /\ cleanups = 2
    /\ peer # 0 /\ peerObj[peer] = "destroyed"
    /\ socket = "disconnected"
    /\ \E c \in ConnObjs : connObj[c].st = "closed" /\ connObj[c].owner = peer


\* ------------------------------------------------------------ the messages
\* The stored records made from the message data.
IsRecordOf(r, data) ==
    /\ r.roomId = data.roomId
    /\ r.userId = data.userId
    /\ r.text = Sanitize(data.text)
    /\ data.timestamp # 0 => r.timestamp = data.timestamp

StoredCopies(data) ==
    Cardinality({i \in 1..Len(messagesDb) : IsRecordOf(messagesDb[i], data)})

Notifications(h, data) ==
    Cardinality({i \in 1..Len(notified) : notified[i] = <<h, data>>})

\* C1: however often a wire message is delivered to handleIncomingMessage, the
\* store holds no more than one record of it and no subscriber is notified of
\* it more than once (the upper bounds of the claim's "exactly one").
C1_DeliveredAtMostOnce ==
    \A data \in Range(deliveries) :
        /\ StoredCopies(data) <= 1
        /\ \A h \in Range(messageCallbacks) : Notifications(h, data) <= 1

\* C2: when the last sendMessage call returned success for a message of a
\* room, getMessagesForRoom of that room (with the default limit, which
\* exceeds the size of the store) returns a record of the message.
C2_SuccessfulSendIsStored ==
    (lastSend.success /\ lastSend.data.roomId # NoRoom)
        => \E r \in Range(getMessagesForRoom(messagesDb, lastSend.data.roomId,
                                              DefaultLimit)) :
               IsRecordOf(r, lastSend.data)

\* C10: a message typed into the input box and handed to sendMessage is in the
\* feed, whatever sendMessage returned.
C10_LocalEchoAlways ==
    (lastInput.called /\ lastSend.called /\ lastSend.data = lastInput.data)
        => \E i \in 1..Len(feed) : feed[i] = lastInput.data


\* C11: every stored record, every message handed to a subscriber and every
\* message in the feed carries the sanitized form of its text.
C11_TextAlwaysSanitized ==
    /\ \A r \in Range(messagesDb) : r.text = Sanitize(r.text)
    /\ \A i \in 1..Len(notified) : notified[i][2].text = Sanitize(notified[i][2].text)
    /\ \A i \in 1..Len(feed) : feed[i].text = Sanitize(feed[i].text)

\* C12: a sendMessage call with empty or whitespace-only text is rejected:
\* it does not return success, no record of the message is stored and nothing
\* is transmitted.
C12_BlankTextRejected ==
    (lastSend.called /\ Trim(lastSend.data.text) = <<>>)
        => /\ ~lastSend.success
           /\ StoredCopies(lastSend.data) = 0
           /\ lastSend.via = "none"


\* ------------------------------------------------------------ the identity
\* C13: once created, the participant ids never change: not the stored
\* userId, and not the peer id that initializeP2P returns.
C13_IdentityImmutable ==
    [][/\ storedUserId # 0 => storedUserId' = storedUserId
       /\ bgPeerId # 0 => bgPeerId' = bgPeerId]_vars

\* A display name as setDisplayName leaves it: sanitized, trimmed, not empty.
IsDisplayName(name) == name # <<>> /\ Sanitize(Trim(name)) = name

\* C14: the persisted display name, in chrome.storage and in the users
\* table, is always a sanitized, non-blank name: no path that saves a
\* nickname replaces it by a name that a rejecting setDisplayName would have
\* refused or changed.
C14_DisplayNameSanitizedNonBlank ==
    /\ storedNickname.has => IsDisplayName(storedNickname.name)
    /\ \A u \in usersDb : IsDisplayName(u.nickname)


\* ------------------------------------------------------- joining, failures
\* A transport of the session is up or coming up: the Peer of the service or
\* the relay socket.
TransportStarted ==
    \/ peer # 0 /\ peerObj[peer] \in {"connecting", "open"}
    \/ socket \in {"connecting", "connected"}

\* C15: whenever joinRoom returns success, a transport has been brought up
\* for the session.
C15_JoinRoomBringsUpTransport ==
    [][(joinRes' # joinRes /\ joinRes'.status = "ok") => TransportStarted']_vars

\* C16: a joinRoom that returns success carries what getMessagesForRoom
\* returns for the room, and a joinRoom whose read of the store failed does
\* not return success with an empty history.
C16_JoinRoomLoadsHistory ==
    [][joinRes' # joinRes
          => IF storeFailure' = "join.get"
             THEN joinRes'.status = "error"
             ELSE joinRes'.status = "ok"
                    => joinRes'.messages
                           = getMessagesForRoom(messagesDb, joinRes'.roomId,
                                                DefaultLimit)]_vars

\* C17: initialize returns an error only after the Mesh connect and the Relay
\* connect have both been attempted in that call and have both failed.
C17_ErrorOnlyOnTotalFailure ==
    initRes.status = "error"
        => initRes.meshFailed /\ initRes.relayTried /\ ~initRes.relayOk

\* C18: a sendMessage call whose saveMessage failed does not return success.
C18_StoreFailureSurfaced ==
    storeFailure = "send.save" => ~lastSend.success

C20_RoomIdRequired ==
    \A r \in Range(messagesDb) : r.roomId # NoRoom

\* --------------------------------------------------------- store maintenance
\* C21: getRooms, unless its read of the database is rejected, returns every
\* room saved with saveRoom, each once, ordered by lastActive descending.
C21_GetRoomsListsSavedRooms ==
    (lastRooms.called /\ storeFailure # "rooms.get")
        => /\ Range(lastRooms.result) = roomsDb
           /\ Len(lastRooms.result) = Cardinality(roomsDb)
           /\ \A i, j \in 1..Len(lastRooms.result) :
                  i < j => lastRooms.result[i].lastActive
                               >= lastRooms.result[j].lastActive

\* C22: clearOldMessages deletes exactly the messages whose timestamp is
\* below the cutoff and leaves every other message as it was, in place; it
\* returns the number of messages removed; a failing delete is returned as a
\* result value, removes nothing and touches nothing of the session.
C22_PurgeDeletesExactlyOlder ==
    [][(lastClear'.called /\ lastClear' # lastClear)
          => LET cutoff == lastClear'.cutoff
                 older == {i \in 1..Len(messagesDb) :
                              messagesDb[i].timestamp < cutoff}
             IN  /\ UNCHANGED <<serviceVars, peerObj, connObj, messageCallbacks>>
                 /\ IF lastClear'.success
                    THEN /\ Range(messagesDb')
                               = {messagesDb[i] : i \in (1..Len(messagesDb)) \ older}
                         /\ Len(messagesDb') = Len(messagesDb) - Cardinality(older)
                         /\ \A i, j \in 1..Len(messagesDb') :
                                i < j => messagesDb'[i].id < messagesDb'[j].id
                         /\ lastClear'.count = Cardinality(older)
                    ELSE /\ messagesDb' = messagesDb
                         /\ storeFailure' = "clear"]_vars

\* A purge removed a message and kept one stamped with the cutoff itself.
C22_Witness ==
    /\ lastClear.called /\ lastClear.success
    /\ lastClear.count >= 1
    /\ \E r \in Range(messagesDb) : r.timestamp = lastClear.cutoff

\* ------------------------------------------------------------------ sending
\* The last sendMessage call reached nobody: no connection was open, or there
\* was no connected relay socket.
NoRecipient ==
    \/ lastSend.via = "mesh" /\ lastSend.to = {}
    \/ lastSend.via = "relay" /\ socket # "connected"
    \/ lastSend.via = "none"

\* C23: a sendMessage call that reached nobody still returns success, and
\* what it returns differs from what a send that reached its recipients
\* returns.
C23_PartialDeliverySignalled ==
    (lastSend.called /\ NoRecipient)
        => /\ lastSend.success
           /\ sendMessageReturned(lastSend) # [success |-> TRUE]

\* The remote peers that this.connections holds a connection for.
KnownRemotes == {r \in Remotes : connections[r] # 0}

\* C27: a sendMessage call in Mesh mode sends the message to every peer that
\* is in the connection set when it runs, a peer whose connection is still
\* connecting included.
C27_SendReachesKnownPeers ==
    [][(lastSend' # lastSend /\ lastSend'.via = "mesh")
          => lastSend'.to = KnownRemotes]_vars

\* ------------------------------------------------------------- subscribers
\* The callback invocations made by the step.
NewNotifications == SubSeq(notified', Len(notified) + 1, Len(notified'))

\* C24: when a message comes in, every handler registered through onMessage
\* whose ChatContainer is still mounted is invoked once with it, and no
\* handler of an unmounted ChatContainer is invoked.
C24_OnlyLiveSubscribersNotified ==
    [][deliveries' # deliveries
          => \A h \in Range(messageCallbacks) :
                 Cardinality({i \in 1..Len(NewNotifications) :
                                 NewNotifications[i][1] = h})
                     = (IF h \in staleHandlers THEN 0 ELSE 1)]_vars

\* ------------------------------------------------------------ the transports
\* The Peer objects that have been created and not destroyed or failed.
LivePeers == {k \in PeerObjs : peerObj[k] \in {"connecting", "open"}}

\* C25: at most one undestroyed Peer exists, and it is the Peer of the
\* service: a repeated initialize leaves no earlier Peer open.
C25_SinglePeer ==
    /\ Cardinality(LivePeers) <= 1
    /\ \A k \in LivePeers : peer = k

\* ---------------------------------------------------------------- the widget
\* The page has come to rest without a widget: the user has left the watch
\* pages, the observer has removed the widget and the worker has handled
\* every message sent to it.
WidgetGone ==
    /\ widgets = <<>>
    /\ location = "other"
    /\ initRequests = <<>>

\* C26: once the widget has been removed and nothing is left to run, the
\* session that the worker opened for it has been torn down: the worker
\* holds no peer id.
C26_TeardownOnWidgetRemoval ==
    WidgetGone => bgPeerId = 0

\* ---------------------------------------------------------- the connections
\* The state changes of a connection that the claimed order allows; a
\* connection torn down while it is connecting counts as closed.
ConnTransitions ==
    {<<"none", "connecting">>, <<"connecting", "open">>, <<"open", "closed">>,
     <<"connecting", "errored">>, <<"connecting", "closed">>}

\* C28: every connection goes from connecting to open to closed, or from
\* connecting to errored: none errors after it has been open, none leaves
\* closed or errored; and this.connections holds only connections that are
\* connecting or open.
C28_ConnectionStateOrder ==
    /\ [][\A c \in ConnObjs :
             \/ connObj'[c].st = connObj[c].st
             \/ <<connObj[c].st, connObj'[c].st>> \in ConnTransitions]_vars
    /\ [](\A r \in Remotes :
             connections[r] # 0
                 => connObj[connections[r]].st \in {"connecting", "open"})

\* The connections of the service's Peer to remote peer r that are connecting
\* or open.
LiveConnections(r) ==
    {c \in ConnObjs : /\ connObj[c].remote = r
                      /\ connObj[c].owner = peer
                      /\ connObj[c].st \in {"connecting", "open"}}

\* C29: the Peer of the service has at most one live connection to each
\* remote peer, whichever side initiated it.
C29_OneConnectionPerPeer ==
    \A r \in Remotes : Cardinality(LiveConnections(r)) <= 1

\* C30: a sendMessage call that emits the message on the relay socket or
\* sends it on a connection has first written its record to the messages
\* store.
C30_StoredBeforeTransmitted ==
    [][(lastSend' # lastSend
         /\ (lastSend'.via = "relay" \/ lastSend'.to # {}))
          => \E i \in 1..Len(messagesDb') :
                 /\ messagesDb'[i].id = nextId
                 /\ IsRecordOf(messagesDb'[i], lastSend'.data)]_vars


\* C31: messages are handled in the order of their arrival.  When m1 arrived
\* before m2, every subscriber that was notified of both was notified of m1
\* first, and the store holds the record of m1 before the record of m2: what
\* a subscriber has been told is the tail of the arrivals since it
\* subscribed, and the records, in ascending id, are arrivals in their order.
NotifiedOf(h) ==
    LET told == SelectSeq(notified, LAMBDA n : n[1] = h)
    IN  [i \in 1..Len(told) |-> told[i][2]]

RECURSIVE RecordsFollow(_, _)
RecordsFollow(records, arrivals) ==
    IF records = <<>> THEN TRUE
    ELSE IF arrivals = <<>> THEN FALSE
    ELSE IF IsRecordOf(Head(records), Head(arrivals))
         THEN RecordsFollow(Tail(records), Tail(arrivals))
         ELSE RecordsFollow(records, Tail(arrivals))

C31_ArrivalOrderKept ==
    /\ \A h \in Range(messageCallbacks) :
          /\ Len(NotifiedOf(h)) <= Len(deliveries)
          /\ NotifiedOf(h) = SubSeq(deliveries,
                                    Len(deliveries) - Len(NotifiedOf(h)) + 1,
                                    Len(deliveries))
    /\ \A i, j \in 1..Len(messagesDb) : i < j => messagesDb[i].id < messagesDb[j].id
    /\ RecordsFollow(messagesDb, deliveries)

\* Two different messages have arrived, a subscriber was told of both and
\* both are stored.
C31_Witness ==
    /\ Len(deliveries) >= 2
    /\ deliveries[1] # deliveries[2]
    /\ \E h \in Range(messageCallbacks) : Len(NotifiedOf(h)) >= 2
    /\ Len(messagesDb) >= 2


\* C32: whenever initialize reports success on the Relay, the relay socket is
\* connected (and so has emitted join-room, which it does in its 'connect'
\* handler and nowhere else before joinRoom is called).
C32_RelaySuccessMeansConnected ==
    [][(initRes' # initRes /\ initRes'.status = "ok" /\ initRes'.usingFallback)
          => socket' = "connected"]_vars


\* C33: a record that handleIncomingMessage adds to the store is stored under
\* the current room of the receiving session, whatever roomId the wire
\* message carried.
C33_StoredUnderSessionRoom ==
    [][(deliveries' # deliveries /\ Len(messagesDb') > Len(messagesDb))
          => messagesDb'[Len(messagesDb')].roomId = roomId]_vars


\* C34: the 'close' or 'error' of a connection that is no longer the one
\* registered for its peer leaves the registered, live connection in
\* this.connections.
C34_SupersededEndKeepsLiveEntry ==
    [][\A c \in ConnObjs, r \in Remotes :
          (/\ cleanups' = 0
           /\ connObj[c].st \in {"connecting", "open"}
           /\ connObj'[c].st \in {"closed", "errored"}
           /\ connections[r] # 0
           /\ connections[r] # c
           /\ connObj'[connections[r]].st \in {"connecting", "open"})
          => connections'[r] = connections[r]]_vars


\* C35: a success returned by initialize carries a peer id and a room id,
\* and the room id is one made for the requested video.
C35_SuccessCarriesIds ==
    initRes.status = "ok"
        => /\ initRes.peerId # 0
           /\ initRes.roomId # NoRoom
           /\ initRes.roomId[1] = videoId


\* C36: no message that arrives once the transport is connected is missed by
\* the feed of the ChatContainer.  A message gets into the feed through the
\* handler the container registers or through the load of the stored messages
\* of the session's room, so every arrival has been handed to a subscriber
\* or is stored under that room.
C36_ArrivalsReachFeed ==
    \A i \in 1..Len(deliveries) :
        \/ \E j \in 1..Len(notified) : notified[j][2] = deliveries[i]
        \/ \E k \in 1..Len(messagesDb) :
              /\ IsRecordOf(messagesDb[k], deliveries[i])
              /\ messagesDb[k].roomId = roomId


\* ------------------------------------------------------------ the watch page
\* C37: a JOIN_ROOM message that the popup sent for room R is handled by
\* joining R: the step that takes it makes R the current room of the session.
C37_JoinRoomReachesHandler ==
    [][(tabMessages # <<>> /\ tabMessages' = Tail(tabMessages))
          => currentRoom' = Head(tabMessages)]_vars

\* C38: the page never holds more than one chat widget, also when
\* initMutationObserver has run twice.
C38_AtMostOneWidget == Len(widgets) <= 1

\* Two observers watch a page that shows a widget.
C38_Witness ==
    /\ observers = 2
    /\ Len(widgets) = 1

\* C39: after the user has closed the widget on a loaded watch page, the page
\* has no widget as long as the location stays the same.
C39_ClosedStaysClosed ==
    [][(closedOn \in PageVideos /\ closedOn' = closedOn /\ loadState = "loaded")
          => widgets' = <<>>]_vars

\* C40: once the observer has seen the current location, a widget on a watch
\* page is the widget of the video shown.
C40_WidgetOfCurrentVideo ==
    (observed /\ location \in PageVideos)
        => \A i \in 1..Len(widgets) : widgets[i] = location

====
